---- MODULE Spec2Model ----
(***************************************************************************)
(* Brownian dynamics, constant-NVT ensemble (bd_nvt_lj.py): the BAOAB      *)
(* driver, its three propagators and the parameter handling, as a state    *)
(* machine.                                                                *)
(*                                                                         *)
(* Numbers.  The program computes in IEEE binary floating point with       *)
(* round-to-nearest-even.  A real number x is held here as the integer     *)
(* x * Grid, and every arithmetic operation rounds its exact result to     *)
(* Prec significant bits (ties to even), which is what the hardware does   *)
(* with 53 bits.  Values below 2^Prec grid units are exact (the subnormal  *)
(* range).  Arrays of shape (n,3) are sequences of n triples.              *)
(***************************************************************************)
EXTENDS Integers, Sequences, FiniteSets, TLC

\* ------------------------------------------------------------------ bounds
Prec == 3          \* significant bits of the floating-point format
MaxBlock == 2      \* largest nblock an input asks for
MaxStep == 2       \* largest nstep an input asks for
MaxPairs == 2      \* forward/reverse call pairs made when the propagators
                   \* are applied on their own

Grid == 2^(Prec + 2)      \* grid units per 1.0
Half == Grid \div 2       \* 0.5
Quarter == Grid \div 4    \* 0.25
Eighth == Grid \div 8     \* 0.125

\* ------------------------------------------------- floating-point arithmetic
Abs(a) == IF a < 0 THEN -a ELSE a

\* round the rational num/den (den > 0) to the nearest integer, ties to even
RoundHalfEven(num, den) ==
  LET q == num \div den
      rem == num % den
  IN  IF 2 * rem < den THEN q
      ELSE IF 2 * rem > den THEN q + 1
      ELSE IF q % 2 = 0 THEN q ELSE q + 1

\* the binary exponent of the last place of a magnitude n/d
RECURSIVE ShiftFor(_, _, _)
ShiftFor(n, d, s) ==
  IF n < (2^Prec) * d * (2^s) THEN s ELSE ShiftFor(n, d, s + 1)

\* the unit in the last place of the value a (grid units)
UlpOf(a) == 2^ShiftFor(Abs(a), 1, 0)

\* the floating-point number nearest the rational num/den (den > 0)
Fl(num, den) ==
  LET s == ShiftFor(Abs(num), den, 0)
  IN  (2^s) * RoundHalfEven(num, den * (2^s))

Add(a, b) == Fl(a + b, 1)
Sub(a, b) == Fl(a - b, 1)
Mul(a, b) == Fl(a * b, Grid)
Div(a, b) == IF b > 0 THEN Fl(a * Grid, b) ELSE Fl(-(a * Grid), -b)

\* np.rint: nearest integer, ties to the even integer
Rint(a) == Grid * RoundHalfEven(a, Grid)

\* ---------------------------------------------------------------- propagators
\* r - np.rint(r), elementwise
Wrap(rr) ==
  [i \in 1..Len(rr) |-> [k \in 1..3 |-> Sub(rr[i][k], Rint(rr[i][k]))]]

\* r + t * v / box, elementwise (the drift before the periodic wrap)
Drift(t, rr, vv, bx) ==
  [i \in 1..Len(rr) |->
     [k \in 1..3 |-> Add(rr[i][k], Div(Mul(t, vv[i][k]), bx))]]

\* faulty variant: the drift without the periodic wrap
a_propagator_NoWrap(t, rr, vv, bx) == Drift(t, rr, vv, bx)

\* faulty variant: the drift without the division by the box length
a_propagator_NoBox(t, rr, vv, bx) ==
  Wrap([i \in 1..Len(rr) |->
          [k \in 1..3 |-> Add(rr[i][k], Mul(t, vv[i][k]))]])

\* a_propagator: the new r
a_propagator(t, rr, vv, bx) == Wrap(Drift(t, rr, vv, bx))

\* faulty variant: the kick with the time left out: v + f
b_propagator_NoTime(t, vv, ff) ==
  [i \in 1..Len(vv) |-> [k \in 1..3 |-> Add(vv[i][k], ff[i][k])]]

\* b_propagator: the new v
b_propagator(t, vv, ff) ==
  [i \in 1..Len(vv) |-> [k \in 1..3 |-> Add(vv[i][k], Mul(t, ff[i][k]))]]

\* np.exp(-x), tabulated at the multiples of 0.5 the inputs below produce
\* (exp is not an integer function; each entry is exp(-k/2) to four digits,
\* rounded to the format like any other result)
ExpTable == <<10000, 6065, 3679, 2231, 1353>>
ExpNeg(x) == CASE x % Half = 0 -> Fl(ExpTable[(x \div Half) + 1] * Grid, 10000)

RECURSIVE ISqrtFrom(_, _)
ISqrtFrom(m, k) == IF (k + 1) * (k + 1) > m THEN k ELSE ISqrtFrom(m, k + 1)

\* np.sqrt of a >= 0: the floating-point number nearest the real square root
SqrtF(a) ==
  LET m == a * Grid                       \* (result in grid units)^2
      u == 2^ShiftFor(ISqrtFrom(m, 0), 1, 0)
      y == u * ISqrtFrom(m \div (u * u), 0)
      lo == (2 * y + u) * (2 * y + u)
  IN  IF lo < 4 * m THEN y + u
      ELSE IF lo > 4 * m THEN y
      ELSE IF (y \div u) % 2 = 0 THEN y ELSE y + u

\* np.polyval([-2/3,4/3,-2.0,2.0,0.0],x) by Horner's rule
PolyCoeffs == <<Fl(-2 * Grid, 3), Fl(4 * Grid, 3), -2 * Grid, 2 * Grid, 0>>
RECURSIVE Horner(_, _, _)
Horner(x, k, y) ==
  IF k > Len(PolyCoeffs) THEN y
  ELSE Horner(x, k + 1, Add(Mul(y, x), PolyCoeffs[k]))

\* c = 1-np.exp(-2*x) if x > 0.0001 else np.polyval(...), then c = np.sqrt(c)
OCoeff(x) ==
  SqrtF(IF 10000 * x > Grid THEN Sub(Grid, ExpNeg(2 * x)) ELSE Horner(x, 1, 0))

\* o_propagator: the new v, xi being the array np.random.randn(n,3) returned
o_propagator(t, vv, gam, temp, xi) ==
  LET x == Mul(gam, t)
      c == OCoeff(x)
      e == ExpNeg(x)
      s == Mul(c, SqrtF(temp))
  IN  [i \in 1..Len(vv) |->
         [k \in 1..3 |-> Add(Mul(vv[i][k], e), Mul(s, xi[i][k]))]]

\* ------------------------------------------------------ force (md_lj_module)
\* The pair model lives in md_lj_module; what is used here is its contract:
\* a pure function of (box, r_cut, r) that sums over the pairs whose
\* minimum-image separation is below r_cut, and flags an overlap when a pair
\* is closer than the model's threshold.  The pair law itself is the simplest
\* one meeting the contract: a unit-stiffness repulsion along the separation.
OverlapSq == Grid \div 4     \* squared overlap threshold, (0.5)^2

Sum3(d) == Add(Add(d[1], d[2]), d[3])
RECURSIVE SumSeq(_, _, _)
SumSeq(s, k, acc) == IF k > Len(s) THEN acc ELSE SumSeq(s, k + 1, Add(acc, s[k]))

\* minimum-image separation of particles i and j, box units
Sep(rr, i, j) ==
  [k \in 1..3 |-> LET d == Sub(rr[i][k], rr[j][k]) IN Sub(d, Rint(d))]
SepSq(rr, i, j) == LET d == Sep(rr, i, j) IN Sum3([k \in 1..3 |-> Mul(d[k], d[k])])
InRange(bx, rc, rr, i, j) ==
  i # j /\ SepSq(rr, i, j) < Mul(Div(rc, bx), Div(rc, bx))
\* squared separation in physical units
PhysSq(bx, rr, i, j) == Mul(SepSq(rr, i, j), Mul(bx, bx))
\* the ordered pairs (i < j) within range, in the order of the double loop
PairsInRange(bx, rc, rr) ==
  SelectSeq([q \in 1..(Len(rr) * Len(rr)) |->
               <<((q - 1) \div Len(rr)) + 1, ((q - 1) % Len(rr)) + 1>>],
            LAMBDA p : p[1] < p[2] /\ InRange(bx, rc, rr, p[1], p[2]))

force(bx, rc, rr) ==
  LET prs == PairsInRange(bx, rc, rr)
      sq == [q \in 1..Len(prs) |-> PhysSq(bx, rr, prs[q][1], prs[q][2])]
      fi(i) ==
        [k \in 1..3 |->
           SumSeq([j \in 1..Len(rr) |->
                     IF InRange(bx, rc, rr, i, j)
                     THEN Mul(Sep(rr, i, j)[k], bx) ELSE 0], 1, 0)]
  IN  [total |->
         [pot |-> SumSeq([q \in 1..Len(sq) |->
                            Mul(Half, Sub(Mul(rc, rc), sq[q]))], 1, 0),
          cut |-> SumSeq([q \in 1..Len(sq) |-> -Mul(Half, sq[q])], 1, 0),
          vir |-> SumSeq(sq, 1, 0),
          lap |-> -(6 * Grid) * Len(sq),
          ovr |-> \E q \in 1..Len(sq) : sq[q] < OverlapSq],
       f |-> [i \in 1..Len(rr) |-> fi(i)]]

\* ------------------------------------------------------------------ calculate
\* The eight variables are formed from kin, fsq and the fields of total (and
\* from n, box, temperature, r_cut, which do not change); the record holds
\* the quantities calculate reads from the state.
SumSq(a) ==
  SumSeq([i \in 1..Len(a) |-> Sum3([k \in 1..3 |-> Mul(a[i][k], a[i][k])])], 1, 0)
calculate(vv, ff, tot) ==
  [kin |-> Mul(Half, SumSq(vv)), fsq |-> SumSq(ff),
   pot |-> tot.pot, cut |-> tot.cut, vir |-> tot.vir, lap |-> tot.lap]

\* ------------------------------------------------------------------- state
VARIABLES
  pc,           \* the statement the script is at
  exit,         \* how the process ended: "" while it runs
  nml,          \* standard input, as json.load sees it
  cnf,          \* the file cnf.inp, as read_cnf_atoms returns it
  console,      \* the diagnostics printed
  log,          \* the calls made so far, in order: <<name, argument>>
  nblock, nstep, r_cut, dt, temperature, gamma,
  n, box, r, v, f, total, variables,
  blk,          \* blocks begun (the loop variable blk)
  stp,          \* steps completed in the current block
  written,      \* what the last write_cnf_atoms call was given
  rng,          \* the process-wide generator: seed calls, randn calls,
                \* the array the last randn call returned
  ptest         \* when the propagators are applied on their own: the last
                \* call made and the state before it

vars == <<pc, exit, nml, cnf, console, log, nblock, nstep, r_cut, dt,
          temperature, gamma, n, box, r, v, f, total, variables, blk, stp,
          written, rng, ptest>>

params == <<nblock, nstep, r_cut, dt, temperature, gamma>>
config == <<n, box, r, v>>

\* ------------------------------------------------------------------ inputs
Keys == {"nblock", "nstep", "r_cut", "dt", "temperature", "gamma"}
\* (the default dt, 0.005, is below the resolution of a format of few bits
\* and rounds to 0 in it)
defaults ==
  [nblock |-> 10, nstep |-> 1000, r_cut |-> Fl(25 * Grid, 10),
   dt |-> Fl(5 * Grid, 1000), temperature |-> Grid, gamma |-> Grid]
\* type(defaults[key])
DefaultType(key) == IF key \in {"nblock", "nstep"} THEN "int" ELSE "float"

Item(k, t, x) == [key |-> k, ty |-> t, val |-> x]
Obj(items) == [kind |-> "object", items |-> items]

\* inputs json.load returns: objects whose recognized keys are well typed
GoodInputs ==
  {Obj(<<Item("nblock", "int", nb), Item("nstep", "int", ns),
         Item("dt", "float", Grid)>>) : nb \in 0..MaxBlock, ns \in 0..MaxStep}
  \cup {Obj(<<Item("dt", "float", Half), Item("nstep", "int", ns),
              Item("r_cut", "float", Grid), Item("nblock", "int", 1)>>) :
          ns \in 1..MaxStep}
  \cup {Obj(<<Item("title", "str", 0), Item("nblock", "int", MaxBlock),
              Item("nstep", "int", 1), Item("dt", "float", Half),
              Item("temperature", "float", Grid)>>),
        Obj(<<Item("nblock", "int", 1), Item("nstep", "int", 1),
              Item("dt", "float", Half), Item("gamma", "float", 0)>>),
        Obj(<< >>),
        Obj(<<Item("title", "str", 0), Item("seed", "int", 7)>>)}
\* a recognized key with a value of another type, alone or after other items
BadTypeInputs ==
  {Obj(pre \o <<Item(kt[1], kt[2], 1)>>) :
     pre \in {<< >>, <<Item("title", "str", 0)>>,
              <<Item("nstep", "int", 1)>>},
     kt \in {p \in Keys \X {"int", "float", "str", "bool"} :
                p[2] # DefaultType(p[1])}}
  \cup {Obj(<<Item(k, "int", 1), Item("nblock", "int", 1)>>) :
          k \in Keys \ {"nblock", "nstep"}}
\* text that is no JSON; JSON that is no object
BrokenInputs == {[kind |-> "invalid", items |-> << >>],
                 [kind |-> "array", items |-> << >>]}
Inputs == GoodInputs \cup BadTypeInputs \cup BrokenInputs

Atom(x, y, z) == <<x, y, z>>
Cnf(count, bx, rr, vv) == [n |-> count, box |-> bx, r |-> rr, v |-> vv]
Zero3 == Atom(0, 0, 0)
\* configurations cnf.inp holds (positions in physical units)
Configs ==
  { \* far apart, at rest
    Cnf(2, 4 * Grid, <<Atom(-Grid, 0, 0), Atom(Grid, 0, 0)>>, <<Zero3, Zero3>>),
    \* approaching each other
    Cnf(2, 4 * Grid, <<Atom(-Grid, 0, 0), Atom(Half, 0, 0)>>,
        <<Atom(Grid, 0, 0), Atom(-Grid, 0, 0)>>),
    \* overlapping from the start
    Cnf(2, 4 * Grid, <<Atom(0, 0, 0), Atom(Quarter, 0, 0)>>, <<Zero3, Zero3>>),
    \* a particle on the box face, outside the central box
    Cnf(2, 2 * Grid, <<Atom(Grid, 3 * Grid, -Grid), Atom(0, 0, 0)>>,
        <<Atom(Half, 0, 0), Zero3>>),
    \* three particles, two of them neighbours through the periodic boundary
    Cnf(3, 4 * Grid,
        <<Atom(-3 * Half, 0, 0), Atom(0, 3 * Half, 0), Atom(3 * Half, 0, -3 * Half)>>,
        <<Atom(Half, 0, 0), Zero3, Atom(0, 0, -Half)>>) }

\* arrays np.random.randn(n,3) returns
Normals(count) ==
  {[i \in 1..count |-> Zero3],
   [i \in 1..count |-> IF i = 1 THEN Atom(Grid, 0, -Half) ELSE Atom(-Grid, Half, 0)]}

NoTotal == [pot |-> 0, cut |-> 0, vir |-> 0, lap |-> 0, ovr |-> FALSE]
NoVariables == [kin |-> 0, fsq |-> 0, pot |-> 0, cut |-> 0, vir |-> 0, lap |-> 0]
NoWrite == [tag |-> -2, n |-> 0, box |-> 0, r |-> << >>, v |-> << >>]
NoTest == [last |-> "", t |-> 0, r0 |-> << >>, v0 |-> << >>, mid |-> << >>,
           crossed |-> FALSE, pairs |-> 0]

\* the process has started and nothing has run
Blank ==
  /\ exit = "" /\ console = << >> /\ log = << >>
  /\ nblock = 0 /\ nstep = 0 /\ r_cut = 0 /\ dt = 0 /\ temperature = 0 /\ gamma = 0
  /\ n = 0 /\ box = 0 /\ r = << >> /\ v = << >> /\ f = << >>
  /\ total = NoTotal /\ variables = NoVariables
  /\ blk = 0 /\ stp = 0 /\ written = NoWrite
  /\ rng = [seeds |-> 0, calls |-> 0, last |-> << >>]
  /\ ptest = NoTest

Init ==
  /\ pc = "start"
  /\ nml \in Inputs
  /\ cnf \in Configs
  /\ Blank

\* ------------------------------------------------------- parameter handling
Call(name, arg) == <<name, arg>>
Emit(calls) == log' = log \o calls
Say(lines) == console' = console \o lines
Halt(how) == pc' = "halt" /\ exit' = how

\* "key in nml" and nml[key]
Has(items, key) == \E i \in 1..Len(items) : items[i].key = key
Get(items, key) ==
  items[CHOOSE i \in 1..Len(items) : items[i].key = key].val
Param(items, key) == IF Has(items, key) THEN Get(items, key) ELSE defaults[key]

\* faulty variant: no type is checked
FirstBadType_None(items) == 0

\* the first item the loop over nml.items() asserts on, 0 when there is none
FirstBadType(items) ==
  IF \E i \in 1..Len(items) :
       items[i].key \in Keys /\ items[i].ty # DefaultType(items[i].key)
  THEN CHOOSE i \in 1..Len(items) :
         /\ items[i].key \in Keys /\ items[i].ty # DefaultType(items[i].key)
         /\ \A j \in 1..(i - 1) :
              items[j].key \in Keys => items[j].ty = DefaultType(items[j].key)
  ELSE 0
\* the warnings printed for the items before position upto
Warnings(items, upto) ==
  LET unknown == SelectSeq(SubSeq(items, 1, upto), LAMBDA it : it.key \notin Keys)
  IN  [i \in 1..Len(unknown) |-> <<"Warning", unknown[i].key>>]

\* lines 138-143: the banner, introduction(), np.random.seed()
Start ==
  /\ pc = "start"
  /\ pc' = "read_nml"
  /\ Emit(<<Call("introduction", 0), Call("seed", 0)>>)
  /\ rng' = [rng EXCEPT !.seeds = @ + 1]
  /\ UNCHANGED <<exit, nml, cnf, console, params, config, f, total, variables,
                 blk, stp, written, ptest>>

\* lines 145-175: json.load, the check of keys and types, the parameters
ReadParams ==
  /\ pc = "read_nml"
  /\ Emit(<<Call("json_load", 0)>>)
  /\ IF nml.kind = "invalid"
     THEN /\ Say(<<<<"Exiting on Invalid JSON format", "">>>>)
          /\ Halt("sys.exit")
          /\ UNCHANGED params
     ELSE IF nml.kind # "object"
     THEN /\ Halt("AttributeError")
          /\ UNCHANGED <<console, params>>
     ELSE LET bad == FirstBadType(nml.items) IN
          IF bad # 0
          THEN /\ Say(Warnings(nml.items, bad - 1)
                        \o <<<<"has the wrong type", nml.items[bad].key>>>>)
               /\ Halt("AssertionError")
               /\ UNCHANGED params
          ELSE /\ Say(Warnings(nml.items, Len(nml.items)))
               /\ nblock' = Param(nml.items, "nblock")
               /\ nstep' = Param(nml.items, "nstep")
               /\ r_cut' = Param(nml.items, "r_cut")
               /\ dt' = Param(nml.items, "dt")
               /\ temperature' = Param(nml.items, "temperature")
               /\ gamma' = Param(nml.items, "gamma")
               \* line 175 prints temperature/gamma
               /\ IF Param(nml.items, "gamma") = 0
                  THEN Halt("ZeroDivisionError")
                  ELSE pc' = "read_cnf" /\ exit' = exit
  /\ UNCHANGED <<nml, cnf, config, f, total, variables, blk, stp, written, rng,
                 ptest>>

\* lines 182-183: r / box, then r - np.rint(r)
LoadPositions(rr, bx) ==
  Wrap([i \in 1..Len(rr) |-> [k \in 1..3 |-> Div(rr[i][k], bx)]])

\* lines 178-183: read_cnf_atoms and the conversion to box units
ReadCnf ==
  /\ pc = "read_cnf"
  /\ pc' = "init_force"
  /\ Emit(<<Call("read_cnf_atoms", 0)>>)
  /\ n' = cnf.n
  /\ box' = cnf.box
  /\ r' = LoadPositions(cnf.r, cnf.box)
  /\ v' = cnf.v
  /\ UNCHANGED <<exit, nml, cnf, console, params, f, total, variables, blk, stp,
                 written, rng, ptest>>

\* lines 186-191: initial forces, the overlap check, calculate, run_begin
InitialForce ==
  /\ pc = "init_force"
  /\ LET fr == force(box, r_cut, r) IN
       /\ total' = fr.total
       /\ f' = fr.f
       /\ IF fr.total.ovr
          THEN /\ Emit(<<Call("force", 1)>>)
               /\ Say(<<<<"Overlap in initial configuration", "">>>>)
               /\ Halt("AssertionError")
               /\ UNCHANGED variables
          ELSE /\ Emit(<<Call("force", 0), Call("calculate", 1),
                         Call("run_begin", 0)>>)
               /\ variables' = calculate(v, fr.f, fr.total)
               /\ pc' = "blk_top"
               /\ UNCHANGED <<exit, console>>
  /\ UNCHANGED <<nml, cnf, params, config, blk, stp, written, rng, ptest>>

\* -------------------------------------------------------- block / step loop
\* dt/2
HalfStep(d) == Div(d, 2 * Grid)

\* file tags are numbers here: cnf.001 is 1, and so on; 'sav' and 'out' are
\* the two below
TagSav == -1
TagOut == 0
\* str(blk).zfill(3) if blk<1000 else 'sav'
SavTag(b) == IF b < 1000 THEN b ELSE TagSav
\* faulty variant: positions are written in box units
WriteCnf_BoxUnits(tag) ==
  written' = [tag |-> tag, n |-> n, box |-> box, r |-> r, v |-> v]

\* write_cnf_atoms ( cnf_prefix+tag, n, box, r*box, v )
WriteCnf(tag) ==
  written' = [tag |-> tag, n |-> n, box |-> box,
              r |-> [i \in 1..Len(r) |-> [k \in 1..3 |-> Mul(r[i][k], box)]],
              v |-> v]

\* line 195: the next block begins (MaxBlock and MaxStep cut short the runs
\* of inputs that leave nblock or nstep at their defaults)
BlkBegin ==
  /\ pc = "blk_top"
  /\ blk < nblock /\ blk < MaxBlock
  /\ blk' = blk + 1
  /\ stp' = 0
  /\ Emit(<<Call("blk_begin", 0)>>)
  /\ pc' = "stp_top"
  /\ UNCHANGED <<exit, nml, cnf, console, params, config, f, total, variables,
                 written, rng, ptest>>

\* line 199: B kick half-step
StepB1 ==
  /\ pc = "stp_top"
  /\ stp < nstep /\ stp < MaxStep
  /\ v' = b_propagator(HalfStep(dt), v, f)
  /\ Emit(<<Call("B", 0)>>)
  /\ pc' = "A1"
  /\ UNCHANGED <<exit, nml, cnf, console, params, n, box, r, f, total,
                 variables, blk, stp, written, rng, ptest>>

\* line 200: A drift half-step
StepA1 ==
  /\ pc = "A1"
  /\ r' = a_propagator(HalfStep(dt), r, v, box)
  /\ Emit(<<Call("A", 0)>>)
  /\ pc' = "O"
  /\ UNCHANGED <<exit, nml, cnf, console, params, n, box, v, f, total,
                 variables, blk, stp, written, rng, ptest>>

\* faulty variant: the second drift is left out
StepO_SkipDrift ==
  /\ pc = "O"
  /\ \E xi \in Normals(n) :
       /\ v' = o_propagator(dt, v, gamma, temperature, xi)
       /\ rng' = [rng EXCEPT !.calls = @ + 1, !.last = xi]
  /\ Emit(<<Call("O", 0)>>)
  /\ pc' = "force"
  /\ UNCHANGED <<exit, nml, cnf, console, params, n, box, r, f, total,
                 variables, blk, stp, written, ptest>>

\* faulty variant: the generator is seeded again in every O call
StepO_Reseed ==
  /\ pc = "O"
  /\ \E xi \in Normals(n) :
       /\ v' = o_propagator(dt, v, gamma, temperature, xi)
       /\ rng' = [rng EXCEPT !.seeds = @ + 1, !.calls = @ + 1, !.last = xi]
  /\ Emit(<<Call("seed", 0), Call("O", 0)>>)
  /\ pc' = "A2"
  /\ UNCHANGED <<exit, nml, cnf, console, params, n, box, r, f, total,
                 variables, blk, stp, written, ptest>>

\* line 201: O random velocities and friction step
StepO ==
  /\ pc = "O"
  /\ \E xi \in Normals(n) :
       /\ v' = o_propagator(dt, v, gamma, temperature, xi)
       /\ rng' = [rng EXCEPT !.calls = @ + 1, !.last = xi]
  /\ Emit(<<Call("O", 0)>>)
  /\ pc' = "A2"
  /\ UNCHANGED <<exit, nml, cnf, console, params, n, box, r, f, total,
                 variables, blk, stp, written, ptest>>

\* line 202: A drift half-step
StepA2 ==
  /\ pc = "A2"
  /\ r' = a_propagator(HalfStep(dt), r, v, box)
  /\ Emit(<<Call("A", 0)>>)
  /\ pc' = "force"
  /\ UNCHANGED <<exit, nml, cnf, console, params, n, box, v, f, total,
                 variables, blk, stp, written, rng, ptest>>

\* faulty variant: the overlap flag is not checked
StepForce_NoAssert ==
  /\ pc = "force"
  /\ LET fr == force(box, r_cut, r) IN
       /\ total' = fr.total
       /\ f' = fr.f
       /\ Emit(<<Call("force", IF fr.total.ovr THEN 1 ELSE 0)>>)
  /\ pc' = "B2"
  /\ UNCHANGED <<exit, console, nml, cnf, params, config, variables, blk, stp,
                 written, rng, ptest>>

\* faulty variant: the forces of the previous step are kept
StepForce_Stale ==
  /\ pc = "force"
  /\ Emit(<<Call("force", 0)>>)
  /\ pc' = "B2"
  /\ UNCHANGED <<exit, console, nml, cnf, params, config, f, total, variables,
                 blk, stp, written, rng, ptest>>

\* lines 204-205: force evaluation and the overlap check
StepForce ==
  /\ pc = "force"
  /\ LET fr == force(box, r_cut, r) IN
       /\ total' = fr.total
       /\ f' = fr.f
       /\ IF fr.total.ovr
          THEN /\ Emit(<<Call("force", 1)>>)
               /\ Say(<<<<"Overlap in configuration", "">>>>)
               /\ Halt("AssertionError")
          ELSE /\ Emit(<<Call("force", 0)>>)
               /\ pc' = "B2"
               /\ UNCHANGED <<exit, console>>
  /\ UNCHANGED <<nml, cnf, params, config, variables, blk, stp, written, rng,
                 ptest>>

\* line 207: B kick half-step
StepB2 ==
  /\ pc = "B2"
  /\ v' = b_propagator(HalfStep(dt), v, f)
  /\ Emit(<<Call("B", 0)>>)
  /\ pc' = "calc"
  /\ UNCHANGED <<exit, nml, cnf, console, params, n, box, r, f, total,
                 variables, blk, stp, written, rng, ptest>>

\* lines 209-210: calculate() and blk_add; the step is complete
StepCalc ==
  /\ pc = "calc"
  /\ variables' = calculate(v, f, total)
  /\ Emit(<<Call("calculate", 0), Call("blk_add", 0)>>)
  /\ stp' = stp + 1
  /\ pc' = "stp_top"
  /\ UNCHANGED <<exit, nml, cnf, console, params, config, f, total, blk,
                 written, rng, ptest>>

\* lines 212-214: block averages, then the numbered configuration
BlkEnd ==
  /\ pc = "stp_top"
  /\ stp >= nstep
  /\ Emit(<<Call("blk_end", blk), Call("write_cnf_atoms", SavTag(blk))>>)
  /\ WriteCnf(SavTag(blk))
  /\ pc' = "blk_top"
  /\ UNCHANGED <<exit, nml, cnf, console, params, config, f, total, variables,
                 blk, stp, rng, ptest>>

\* faulty variant: the block loop ends one block early
RunEnd_OffByOne ==
  /\ pc = "blk_top"
  /\ blk >= nblock - 1
  /\ Emit(<<Call("run_end", 0)>>)
  /\ pc' = "final_force"
  /\ UNCHANGED <<exit, nml, cnf, console, params, config, f, total, variables,
                 blk, stp, written, rng, ptest>>

\* line 216: run_end, after the last block
RunEnd ==
  /\ pc = "blk_top"
  /\ blk >= nblock
  /\ Emit(<<Call("run_end", 0)>>)
  /\ pc' = "final_force"
  /\ UNCHANGED <<exit, nml, cnf, console, params, config, f, total, variables,
                 blk, stp, written, rng, ptest>>

\* lines 218-219: final force evaluation and overlap check
FinalForce ==
  /\ pc = "final_force"
  /\ LET fr == force(box, r_cut, r) IN
       /\ total' = fr.total
       /\ f' = fr.f
       /\ IF fr.total.ovr
          THEN /\ Emit(<<Call("force", 1)>>)
               /\ Say(<<<<"Overlap in final configuration", "">>>>)
               /\ Halt("AssertionError")
          ELSE /\ Emit(<<Call("force", 0)>>)
               /\ pc' = "final_write"
               /\ UNCHANGED <<exit, console>>
  /\ UNCHANGED <<nml, cnf, params, config, variables, blk, stp, written, rng,
                 ptest>>

\* lines 221-223: final values, the output configuration, conclusion()
FinalWrite ==
  /\ pc = "final_write"
  /\ variables' = calculate(v, f, total)
  /\ Emit(<<Call("calculate", 2), Call("write_cnf_atoms", TagOut),
            Call("conclusion", 0)>>)
  /\ WriteCnf(TagOut)
  /\ Halt("ok")
  /\ UNCHANGED <<nml, cnf, console, params, config, f, total, blk, stp, rng,
                 ptest>>

Next ==
  \/ Start \/ ReadParams \/ ReadCnf \/ InitialForce
  \/ BlkBegin \/ StepB1 \/ StepA1 \/ StepO \/ StepA2 \/ StepForce \/ StepB2
  \/ StepCalc \/ BlkEnd \/ RunEnd \/ FinalForce \/ FinalWrite

Spec == Init /\ [][Next]_vars

\* ------------------------------------------- the propagators on their own
\* The load and the two deterministic propagators applied to a wide range of
\* positions, velocities, forces, box lengths and times; each forward call
\* A(t) or B(t) is followed by the reverse call A(-t) or B(-t).
PropTimes == {Quarter, Grid, -Half}
PropBoxes == {Grid, 2 * Grid, 4 * Grid}
PropConfigs ==
  {Cnf(1, bx, <<Atom(x, y, -3 * Half)>>, <<Atom(vx, -Grid, Half)>>) :
     bx \in PropBoxes,
     x \in {-5 * Half, -Half, -3, 0, 5, Quarter + 1, Half, 3 * Half},
     y \in {0, Grid},
     vx \in {-2 * Grid, 3, Quarter}}
PropForces == {<<Zero3>>, <<Atom(Grid, -3, Half)>>, <<Atom(-5, Grid + Half, 0)>>}

\* some coordinate of the drifted positions is moved by the periodic wrap
Crosses(dr) == \E i \in 1..Len(dr) : \E k \in 1..3 : Rint(dr[i][k]) # 0

PropInit ==
  /\ pc = "prop_load"
  /\ cnf \in PropConfigs
  /\ nml = Obj(<< >>)
  /\ Blank

PropLoad ==
  /\ pc = "prop_load"
  /\ pc' = "prop"
  /\ n' = cnf.n
  /\ box' = cnf.box
  /\ r' = LoadPositions(cnf.r, cnf.box)
  /\ v' = cnf.v
  /\ \E ff \in PropForces : f' = ff
  /\ ptest' = [ptest EXCEPT !.last = "load"]
  /\ UNCHANGED <<exit, nml, cnf, console, log, params, total, variables, blk,
                 stp, written, rng>>

PropA ==
  /\ pc = "prop"
  /\ ptest.last \in {"load", "A_back", "B_back"}
  /\ ptest.pairs < MaxPairs
  /\ \E t \in PropTimes :
       /\ r' = a_propagator(t, r, v, box)
       /\ ptest' = [last |-> "A", t |-> t, r0 |-> r, v0 |-> v, mid |-> r,
                    crossed |-> Crosses(Drift(t, r, v, box)),
                    pairs |-> ptest.pairs + 1]
  /\ UNCHANGED <<pc, exit, nml, cnf, console, log, params, n, box, v, f, total,
                 variables, blk, stp, written, rng>>

PropABack ==
  /\ pc = "prop"
  /\ ptest.last = "A"
  /\ r' = a_propagator(-ptest.t, r, v, box)
  /\ ptest' = [ptest EXCEPT !.last = "A_back", !.mid = r,
                 !.crossed = @ \/ Crosses(Drift(-ptest.t, r, v, box))]
  /\ UNCHANGED <<pc, exit, nml, cnf, console, log, params, n, box, v, f, total,
                 variables, blk, stp, written, rng>>

PropB ==
  /\ pc = "prop"
  /\ ptest.last \in {"load", "A_back", "B_back"}
  /\ ptest.pairs < MaxPairs
  /\ \E t \in PropTimes :
       /\ v' = b_propagator(t, v, f)
       /\ ptest' = [last |-> "B", t |-> t, r0 |-> r, v0 |-> v, mid |-> v,
                    crossed |-> FALSE, pairs |-> ptest.pairs + 1]
  /\ UNCHANGED <<pc, exit, nml, cnf, console, log, params, n, box, r, f, total,
                 variables, blk, stp, written, rng>>

PropBBack ==
  /\ pc = "prop"
  /\ ptest.last = "B"
  /\ v' = b_propagator(-ptest.t, v, f)
  /\ ptest' = [ptest EXCEPT !.last = "B_back", !.mid = v]
  /\ UNCHANGED <<pc, exit, nml, cnf, console, log, params, n, box, r, f, total,
                 variables, blk, stp, written, rng>>

PropNext == PropLoad \/ PropA \/ PropABack \/ PropB \/ PropBBack

SpecProp == PropInit /\ [][PropNext]_vars

\* ================================================================== claims
Idx(a) == {<<i, k>> : i \in 1..Len(a), k \in 1..3}
Max(a, b) == IF a > b THEN a ELSE b

\* ---------------------------------------------------------------------- C4
\* C4 as stated: after the load and after every drift A, every coordinate of
\* every position lies in the half-open interval [-0.5, 0.5), never at +0.5.
C4_HalfOpen ==
  \A p \in Idx(r) : -Half <= r[p[1]][p[2]] /\ r[p[1]][p[2]] < Half

\* C4, amended: after the load and after every drift A, every coordinate lies
\* in the closed interval [-0.5, 0.5]; a coordinate is +0.5 (or -0.5) after a
\* drift only when the unwrapped value is an even integer plus (minus) 0.5,
\* which np.rint rounds to that even integer.
C4_Closed ==
  /\ \A p \in Idx(r) : -Half <= r[p[1]][p[2]] /\ r[p[1]][p[2]] <= Half
  /\ ptest.last = "A" =>
       \A p \in Idx(r) :
         LET d == Drift(ptest.t, ptest.r0, v, box)[p[1]][p[2]] IN
           /\ r[p[1]][p[2]] = Half => (d - Half) % (2 * Grid) = 0
           /\ r[p[1]][p[2]] = -Half => (d + Half) % (2 * Grid) = 0

\* a drift carried a coordinate across the boundary and left one at +0.5
C4_Witness ==
  /\ ptest.last = "A" /\ ptest.crossed
  /\ \E p \in Idx(r) : r[p[1]][p[2]] = Half /\ ptest.r0[p[1]][p[2]] # Half

\* ---------------------------------------------------------------------- C5
NoOtherChange ==
  /\ ptest.last \in {"A", "A_back"} => v = ptest.v0
  /\ ptest.last \in {"B", "B_back"} => r = ptest.r0

\* C5 as stated: A(t) then A(-t), with no coordinate crossing a wrap boundary,
\* restores the original positions; B(t) then B(-t) restores the original
\* velocities; A never changes velocities and B never changes positions.
C5_Exact ==
  /\ ptest.last = "A_back" /\ ~ptest.crossed => r = ptest.r0
  /\ ptest.last = "B_back" => v = ptest.v0
  /\ NoOtherChange

\* the rounding error two floating-point additions can leave: positions are
\* at most 0.5 in size, so 2^-Prec; velocities, one unit in the last place of
\* the largest of the three values involved
PosTol == Grid \div (2^Prec)
VelTol(a, b, c) == Max(UlpOf(a), Max(UlpOf(b), UlpOf(c)))

\* C5, amended: A(t) then A(-t), with no coordinate crossing a wrap boundary,
\* restores the original positions to within floating-point tolerance, and
\* B(t) then B(-t) the original velocities to within floating-point
\* tolerance; A never changes velocities and B never changes positions.
C5_WithinTolerance ==
  /\ ptest.last = "A_back" /\ ~ptest.crossed =>
       \A p \in Idx(r) : Abs(r[p[1]][p[2]] - ptest.r0[p[1]][p[2]]) <= PosTol
  /\ ptest.last = "B_back" =>
       \A p \in Idx(v) :
         Abs(v[p[1]][p[2]] - ptest.v0[p[1]][p[2]])
           <= VelTol(v[p[1]][p[2]], ptest.v0[p[1]][p[2]], ptest.mid[p[1]][p[2]])
  /\ NoOtherChange

\* a reverse drift, no wrap crossed, that moved the particle back but not
\* exactly onto its original position
C5_Witness ==
  /\ ptest.last = "A_back" /\ ~ptest.crossed
  /\ ptest.mid # ptest.r0
  /\ r # ptest.r0

\* ------------------------------------------------------ reading the call log
Named(name) == SelectSeq(log, LAMBDA c : c[1] = name)
Count(name) == Len(Named(name))
Places(name) == {i \in 1..Len(log) : log[i][1] = name}
Last(s) == s[Len(s)]
SetMax(S) == CHOOSE x \in S : \A y \in S : y <= x

\* ---------------------------------------------------------------------- C1
StepPattern == <<"B", "A", "O", "A", "force", "B", "calculate", "blk_add">>
\* the blk_begin call that opened the block call i belongs to, 0 if i is not
\* between a blk_begin and its blk_end (begins, ends: where those calls are)
BlockOf(i, begins, ends) ==
  LET before == {j \in begins : j < i} IN
    IF before = {} THEN 0
    ELSE IF \E j \in ends : SetMax(before) < j /\ j <= i THEN 0
    ELSE SetMax(before)
InBlock(i) == BlockOf(i, Places("blk_begin"), Places("blk_end"))

\* C1: inside the block/step loop the calls of every step are, in this order
\* and with none skipped, repeated or reordered, B, A, O, A, force (followed
\* by the overlap check), B, calculate, blk_add; the step phases occur nowhere
\* else; and the process ends either between steps or at the overlap check
\* that follows a step's force call.
C1_StepOrder ==
  /\ LET begins == Places("blk_begin")
         ends == Places("blk_end")
     IN  \A i \in 1..Len(log) :
           LET b == BlockOf(i, begins, ends) IN
             IF b # 0
             THEN log[i][1] = StepPattern[((i - b - 1) % 8) + 1]
             ELSE log[i][1] \notin {"B", "A", "O", "blk_add"}
  /\ (pc = "halt" /\ Len(log) > 0 /\ InBlock(Len(log)) # 0) =>
       /\ (Len(log) - InBlock(Len(log))) % 8 = 5
       /\ Last(log) = Call("force", 1)
       /\ exit = "AssertionError"

\* a second step of a block has run all eight phases
C1_Witness ==
  /\ pc = "stp_top" /\ stp = 2
  /\ Len(log) - InBlock(Len(log)) = 16

\* ---------------------------------------------------------------------- C2
\* C2: a force computation that reports overlap is the last thing the run
\* does: the process has ended with the assertion failure, and no propagator,
\* blk_add, blk_end, run_end or write_cnf_atoms call follows; hence every
\* blk_end is preceded only by force computations without overlap.
C2_OverlapFatal ==
  /\ \A i \in 1..Len(log) :
       log[i] = Call("force", 1) =>
         i = Len(log) /\ pc = "halt" /\ exit = "AssertionError"
  /\ total.ovr => pc = "halt" /\ exit = "AssertionError"
  /\ \A i \in Places("blk_end") :
       \A j \in 1..i : log[j][1] = "force" => log[j][2] = 0

\* a step's force computation reported overlap after a completed step
C2_Witness ==
  /\ pc = "halt" /\ total.ovr
  /\ Count("blk_add") >= 1
  /\ Last(console)[1] = "Overlap in configuration"

\* ---------------------------------------------------------------------- C3
WrongType(it) == it.key \in Keys /\ it.ty # DefaultType(it.key)
Malformed ==
  nml.kind # "object" \/ \E i \in 1..Len(nml.items) : WrongType(nml.items[i])
OnlyExtraKeys ==
  /\ nml.kind = "object" /\ nml.items # << >>
  /\ \A i \in 1..Len(nml.items) : nml.items[i].key \notin Keys
SimulationCalls ==
  {"read_cnf_atoms", "force", "calculate", "run_begin", "blk_begin", "blk_add",
   "blk_end", "run_end", "write_cnf_atoms", "B", "A", "O"}
NoSimulationState ==
  /\ n = 0 /\ box = 0 /\ r = << >> /\ v = << >> /\ f = << >>
  /\ total = NoTotal /\ variables = NoVariables /\ written = NoWrite
  /\ \A i \in 1..Len(log) : log[i][1] \notin SimulationCalls

StatsCalls == {"run_begin", "blk_begin", "blk_add", "blk_end", "run_end"}
Repeat(c, k) == [i \in 1..k |-> c]
RECURSIVE BlocksFrom(_, _, _)
BlocksFrom(b, nb, ns) ==
  IF b > nb THEN << >>
  ELSE <<Call("blk_begin", 0)>> \o Repeat(Call("blk_add", 0), ns)
         \o <<Call("blk_end", b)>> \o BlocksFrom(b + 1, nb, ns)
\* the statistics calls of a whole run of nb blocks of ns steps
Lifecycle(nb, ns) ==
  <<Call("run_begin", 0)>> \o BlocksFrom(1, nb, ns) \o <<Call("run_end", 0)>>

LifecycleInOrder ==
  (pc = "halt" /\ exit = "ok") =>
    /\ SelectSeq(log, LAMBDA c : c[1] \in StatsCalls) = Lifecycle(nblock, nstep)
    /\ Count("O") = nblock * nstep
    /\ \A i \in Places("run_end") :
         \A j \in Places("write_cnf_atoms") : log[j][2] = TagOut => i < j
    /\ \A i \in Places("force") : log[i][2] = 0

\* the number of calls a whole run makes: seven before the first block,
\* blk_begin, eight a step, blk_end and the checkpoint in every block, and
\* five from run_end on
RunLength(nb, ns) == 7 + nb * (3 + 8 * ns) + 5
\* statements at which the script has a next statement to run
Running ==
  {"start", "read_nml", "read_cnf", "init_force", "blk_top", "stp_top", "A1",
   "O", "A2", "force", "B2", "calc", "final_force", "final_write"}

\* C6: the run makes a bounded number of calls and then ends; a run in which
\* no force computation reports overlap ends normally after exactly
\* nblock * nstep steps, its statistics calls being run_begin, then for blocks
\* 1..nblock in order blk_begin, nstep times blk_add, blk_end with the block's
\* index, then run_end once, before the final configuration is written.
C6_RunsToCompletion ==
  /\ LifecycleInOrder
  /\ pc = "halt" \/ pc \in Running
  /\ pc \notin {"start", "read_nml", "halt"} =>
       Len(log) < RunLength(nblock, nstep)
  /\ pc = "halt" =>
       \/ exit = "ok" /\ Len(log) = RunLength(nblock, nstep)
       \/ exit = "AssertionError" /\ Last(log) = Call("force", 1)
       \/ Last(log) = Call("json_load", 0)

\* a run of two blocks of two steps has ended normally
C6_Witness ==
  /\ pc = "halt" /\ exit = "ok"
  /\ nblock = 2 /\ nstep = 2 /\ Count("blk_add") = 4

\* ---------------------------------------------------------------------- C7
ToPhysical(rr, bx) == [i \in 1..Len(rr) |-> [k \in 1..3 |-> Mul(rr[i][k], bx)]]

\* C7: every blk_end is followed at once by exactly one write_cnf_atoms call
\* with that block's tag, and no numbered configuration is written anywhere
\* else, so one checkpoint lies between a block's blk_end and the next
\* blk_begin; the output configuration is written once, after run_end; and
\* what a write is given is n, box, the stored positions times box, and the
\* current velocities.
C7_Checkpoints ==
  /\ \A i \in Places("blk_end") :
       i < Len(log) /\ log[i + 1] = Call("write_cnf_atoms", SavTag(log[i][2]))
  /\ \A j \in Places("write_cnf_atoms") :
       IF log[j][2] = TagOut
       THEN /\ \E i \in Places("run_end") : i < j
            /\ \A i \in Places("write_cnf_atoms") : log[i][2] = TagOut => i = j
       ELSE j > 1 /\ log[j - 1][1] = "blk_end"
  /\ (pc = "halt" /\ exit = "ok") =>
       Len(SelectSeq(log, LAMBDA c : c = Call("write_cnf_atoms", TagOut))) = 1
  /\ (Len(log) > 0 /\ Last(log)[1] \in {"write_cnf_atoms", "conclusion"}) =>
       /\ written.r = ToPhysical(r, box)
       /\ written.v = v /\ written.n = n /\ written.box = box
       /\ written.tag = (IF pc = "halt" THEN TagOut ELSE SavTag(blk))

\* the second block's checkpoint has been written, of positions that are not
\* the ones read in
C7_Witness ==
  /\ pc = "blk_top" /\ blk = 2
  /\ Last(log) = Call("write_cnf_atoms", 2)
  /\ written.r # cnf.r /\ written.r # r

\* ---------------------------------------------------------------------- C8
\* C8: the generator is seeded once, before anything else uses it, and never
\* again; every draw from it is made by an O call; and between steps the
\* number of draws is the number of completed steps.
C8_Generator ==
  /\ rng.seeds = (IF pc = "start" THEN 0 ELSE 1)
  /\ Count("seed") = rng.seeds
  /\ \A i \in Places("seed") : \A j \in Places("O") : i < j
  /\ rng.calls = Count("O")
  /\ pc \in {"stp_top", "blk_top"} => rng.calls = Count("blk_add")
  /\ pc = "stp_top" => rng.calls = (blk - 1) * nstep + stp

\* three steps are complete, the third in the second block
C8_Witness == pc = "stp_top" /\ blk = 2 /\ stp = 1 /\ rng.calls = 3

\* ---------------------------------------------------------------------- C9
ForcesCurrent ==
  LET fr == force(box, r_cut, r) IN f = fr.f /\ total = fr.total

\* C9: between steps, when the first B of a step runs, when the second B
\* runs, at calculate and at every write, the stored forces and force summary
\* are those of the current positions; and forces have been computed once at
\* the start and once in every step.
C9_ForcesCurrent ==
  /\ pc \in {"blk_top", "stp_top", "A1", "B2", "calc", "final_force",
             "final_write"} => ForcesCurrent
  /\ (pc = "halt" /\ exit = "ok") => ForcesCurrent
  /\ pc \in {"blk_top", "stp_top"} => Count("force") = 1 + Count("blk_add")
  /\ pc \in {"A1", "O", "A2", "force"} => Count("force") = 1 + Count("blk_add")
  /\ pc \in {"B2", "calc"} => Count("force") = 2 + Count("blk_add")

\* the second kick of a step is about to use forces that differ from the
\* ones the first kick used
C9_Witness ==
  /\ pc = "B2" /\ ~total.ovr
  /\ f # force(cnf.box, r_cut, LoadPositions(cnf.r, cnf.box)).f
  /\ Count("blk_add") = 0

\* --------------------------------------------------------------------- C10
AllZero(a) == \A p \in Idx(a) : a[p[1]][p[2]] = 0
\* c*np.sqrt(temperature)*np.random.randn(n,3), for the array last drawn
RandomTerm ==
  [i \in 1..Len(rng.last) |->
     [k \in 1..3 |->
        Mul(Mul(OCoeff(Mul(gamma, dt)), SqrtF(temperature)), rng.last[i][k])]]
\* the first step of a run whose configuration is at rest and free of forces
FirstStepAtRest ==
  /\ blk = 1 /\ stp = 0 /\ pc \in {"A1", "O", "A2", "force", "B2", "calc"}
  /\ AllZero(cnf.v)
  /\ AllZero(force(cnf.box, r_cut, LoadPositions(cnf.r, cnf.box)).f)

\* C10: in the first step of a run that starts at rest with all forces zero,
\* the first B leaves the velocities zero, the first A leaves the positions
\* where they were loaded, the O step makes the velocities its random term,
\* the second A moves each position by (dt/2) times that velocity over box
\* (then wraps), and, the new forces being zero too, the second B leaves the
\* velocities equal to the random term.
C10_FirstStep ==
  FirstStepAtRest =>
    LET r0 == LoadPositions(cnf.r, cnf.box) IN
      /\ pc = "A1" => AllZero(v) /\ r = r0
      /\ pc = "O" => AllZero(v) /\ r = r0
      /\ pc = "A2" => v = RandomTerm /\ r = r0
      /\ pc \in {"force", "B2"} =>
           /\ v = RandomTerm
           /\ r = Wrap([i \in 1..n |->
                          [k \in 1..3 |->
                             Add(r0[i][k],
                                 Div(Mul(HalfStep(dt), RandomTerm[i][k]), box))]])
      /\ (pc = "calc" /\ AllZero(f)) =>
           /\ v = RandomTerm
           /\ r = Wrap([i \in 1..n |->
                          [k \in 1..3 |->
                             Add(r0[i][k],
                                 Div(Mul(HalfStep(dt), RandomTerm[i][k]), box))]])

\* such a first step is complete, and the particles have moved
C10_Witness ==
  /\ FirstStepAtRest /\ pc = "calc" /\ AllZero(f)
  /\ ~AllZero(v) /\ r # LoadPositions(cnf.r, cnf.box)

====
